---- MODULE Spec2Model ----
(***************************************************************************)
(* The update-scheduling and failure-recovery state machine of the         *)
(* open_banking integration: OpenBankingDataUpdateCoordinator              *)
(* (coordinator.py), the NordigenWrapper adapter (nordigen_wrapper.py),    *)
(* the persisted config entry, and the options flow (config_flow.py).      *)
(*                                                                         *)
(* Time is counted in whole seconds.  A persisted timestamp is the string  *)
(* written by datetime.isoformat(); a string is modelled by what           *)
(* datetime.fromisoformat() makes of it.                                   *)
(***************************************************************************)
EXTENDS Integers, Sequences, FiniteSets, TLC

(***************************************************************************)
(* Program constants                                                       *)
(***************************************************************************)
UPDATE_INTERVAL_HOURS == 6

PastDueDelay == 60

NominalInterval == UPDATE_INTERVAL_HOURS * 3600

(***************************************************************************)
(* Bounds of the model                                                     *)
(***************************************************************************)
\* how many times the clock advances in one behaviour
MaxTicks == 2

\* how many update cycles are started in one behaviour
MaxCycles == 2

\* how many one-shot wake-ups may be pending at once
MaxWakeups == 1

\* how far around each landmark the persisted timestamps of CtorSpec range
MaxSkew == 1

(***************************************************************************)
(* Strings and datetimes                                                   *)
(***************************************************************************)
\* A stored string: None, "", an ISO-8601 string with a UTC offset ("iso"),
\* an ISO-8601 string without offset ("naive"), or any other text ("bad").
Str(kind, t) == [kind |-> kind, t |-> t]

NoneStr == Str("none", 0)

EmptyStr == Str("empty", 0)

BadStr == Str("bad", 0)

\* A datetime: aware (tz = "utc") or naive; NoDatetime is Python's None.
Datetime(tz, t) == [tz |-> tz, t |-> t]

NoDatetime == Datetime("none", 0)

UtcTime(t) == Datetime("utc", t)

\* Python truthiness of a stored string: None and "" are falsy.
Truthy(s) == s.kind \notin {"none", "empty"}

\* datetime.isoformat()
isoformat(dt) == Str(IF dt.tz = "utc" THEN "iso" ELSE "naive", dt.t)

\* datetime.fromisoformat(): ok = FALSE stands for ValueError
fromisoformat(s) ==
    IF s.kind = "iso" THEN [ok |-> TRUE, dt |-> Datetime("utc", s.t)]
    ELSE IF s.kind = "naive" THEN [ok |-> TRUE, dt |-> Datetime("naive", s.t)]
    ELSE [ok |-> FALSE, dt |-> NoDatetime]

\* Comparing or subtracting a naive and an aware datetime raises TypeError.
SameZone(a, b) == a.tz = b.tz

(***************************************************************************)
(* The persisted config entry (entry.data)                                 *)
(***************************************************************************)
NoToken == "None"

\* the refresh tokens the provider hands out
Tokens == {"tokA", "tokB"}

\* what the options form stores when the token field is left blank
UserTokens == {""}

Requisitions == {"req1"}

\* the entry the config flow creates: credentials, requisition, token
NewEntry(req, tok) ==
    [ secret_id        |-> "id",
      secret_key       |-> "key",
      requisition_id   |-> req,
      refresh_token    |-> tok,
      last_update_time |-> NoneStr,
      rate_limit_reset |-> NoneStr,
      known_accounts   |-> <<>> ]

\* what a key that is not stored reads as
Absent(key) ==
    IF key \in {"last_update_time", "rate_limit_reset"} THEN NoneStr
    ELSE IF key = "known_accounts" THEN <<>>
    ELSE NoToken

\* MergedData without "**self.entry.data": the other keys are lost
MergedData_only_key(e, key, value) ==
    [k \in DOMAIN e |-> IF k = key THEN value ELSE Absent(k)]

\* data={**self.entry.data, key: value}
MergedData(e, key, value) == [e EXCEPT ![key] = value]

(***************************************************************************)
(* Construction: the poll decision                                         *)
(***************************************************************************)
\* the branch of _calculate_next_update_interval taken when the entry holds
\* a rate limit reset in the future: seconds until the reset
RateLimitedInterval(e, t) ==
    LET s == e.rate_limit_reset
        p == fromisoformat(s)
    IN  IF Truthy(s) /\ p.ok /\ SameZone(p.dt, UtcTime(t)) /\ p.dt.t > t
        THEN [hit |-> TRUE, seconds |-> p.dt.t - t]
        ELSE [hit |-> FALSE, seconds |-> 0]

Max(a, b) == IF a >= b THEN a ELSE b

\* ElapsedInterval with a floor of PastDueDelay under every remaining time
ElapsedInterval_floor(last_update_str, t) ==
    LET p == fromisoformat(last_update_str)
    IN  IF ~Truthy(last_update_str) THEN NominalInterval
        ELSE IF ~p.ok \/ ~SameZone(p.dt, UtcTime(t)) THEN NominalInterval
        ELSE Max(PastDueDelay, NominalInterval - (t - p.dt.t))

\* the branch taken otherwise: from the last update time
ElapsedInterval(last_update_str, t) ==
    LET p == fromisoformat(last_update_str)
    IN  IF ~Truthy(last_update_str) THEN NominalInterval
        ELSE IF ~p.ok \/ ~SameZone(p.dt, UtcTime(t)) THEN NominalInterval
        ELSE LET time_until_next_update == NominalInterval - (t - p.dt.t)
             IN  IF time_until_next_update <= 0 THEN PastDueDelay
                 ELSE time_until_next_update

\* calculate_next_update_interval looking at the last update time first
calculate_last_update_first(e, last_update_str, t) ==
    LET r == RateLimitedInterval(e, t)
    IN  IF Truthy(last_update_str) \/ ~r.hit
        THEN ElapsedInterval(last_update_str, t)
        ELSE r.seconds

calculate_next_update_interval(e, last_update_str, t) ==
    LET r == RateLimitedInterval(e, t)
    IN  IF r.hit THEN r.seconds ELSE ElapsedInterval(last_update_str, t)

\* should_refresh_immediately with ">=" for ">"
should_refresh_at_interval(last_update_str, t) ==
    LET p == fromisoformat(last_update_str)
    IN  IF ~Truthy(last_update_str) THEN TRUE
        ELSE IF ~p.ok \/ ~SameZone(p.dt, UtcTime(t)) THEN FALSE
        ELSE (t - p.dt.t) >= NominalInterval

should_refresh_immediately(last_update_str, t) ==
    LET p == fromisoformat(last_update_str)
    IN  IF ~Truthy(last_update_str) THEN TRUE
        ELSE IF ~p.ok \/ ~SameZone(p.dt, UtcTime(t)) THEN FALSE
        ELSE (t - p.dt.t) > NominalInterval

\* NeedsImmediateRefresh holding back while a rate limit is recorded
NeedsImmediateRefresh_unless_limited(e, t) ==
    /\ ~RateLimitedInterval(e, t).hit
    /\ should_refresh_immediately(e.last_update_time, t)

\* __init__ lines 34 and 47: the flag, from the stored last update time
NeedsImmediateRefresh(e, t) ==
    should_refresh_immediately(e.last_update_time, t)

\* __init__ lines 34 and 37: the interval the poll timer is primed with
InitialInterval(e, t) ==
    calculate_next_update_interval(e, e.last_update_time, t)

\* __init__ lines 53-72: the in-memory copy of a stored timestamp
ParsedOrNone(s) ==
    IF Truthy(s) /\ fromisoformat(s).ok THEN fromisoformat(s).dt ELSE NoDatetime

(***************************************************************************)
(* The adapter's answers                                                   *)
(***************************************************************************)
AccountLists == {<<>>, <<"acc1", "acc2">>}

\* the status codes the coordinator tells apart, and one it does not
Statuses == {401, 429, 428, 410, 500}

\* the wait durations the provider announces
Waits == {120, 300}

\* One whitespace-separated token of the detail message: int() accepts it
\* (num) or raises ValueError.
IntTok(n) == [num |-> TRUE, v |-> n]

Word == [num |-> FALSE, v |-> 0]

\* "... retry after <n> seconds"
RetryAfter(n) == <<Word, Word, IntTok(n), Word>>

\* detail messages without a wait duration in the second-to-last place:
\* "Throttled", "after 120"
MalformedDetails == {<<Word>>, <<Word, IntTok(120)>>}

Body(has_detail, detail) == [has_detail |-> has_detail, detail |-> detail]

NoDetailBody == Body(FALSE, <<>>)

RateLimitBodies ==
    {Body(TRUE, RetryAfter(n)) : n \in Waits}
        \cup {Body(TRUE, <<IntTok(n), Word>>) : n \in Waits}
        \cup {Body(TRUE, d) : d \in MalformedDetails}
        \cup {NoDetailBody}

Resp(call, kind, status, body, new_token) ==
    [call |-> call, kind |-> kind, status |-> status, body |-> body,
     new_token |-> new_token]

NoResp == Resp("none", "ok", 0, NoDetailBody, NoToken)

ApiErrors(call) ==
    {Resp(call, "api_error", 429, b, NoToken) : b \in RateLimitBodies}
        \cup {Resp(call, "api_error", s, NoDetailBody, NoToken) :
                 s \in Statuses \ {429}}

\* update_all_accounts: one round of calls per account; with no account
\* there is no call that could fail.
update_all_accounts(accounts) ==
    IF accounts = <<>>
    THEN {Resp("fetch", "ok", 0, NoDetailBody, NoToken)}
    ELSE {Resp("fetch", "ok", 0, NoDetailBody, NoToken),
          Resp("fetch", "exception", 0, NoDetailBody, NoToken)}
             \cup ApiErrors("fetch")

\* create_nordigen_client as refresh_access_token calls it
refresh_access_token ==
    {Resp("refresh", "ok", 0, NoDetailBody, tok) : tok \in {NoToken} \cup Tokens}
        \cup {Resp("refresh", "exception", 0, NoDetailBody, NoToken)}
        \cup {Resp("refresh", "api_error", s, NoDetailBody, NoToken) :
                 s \in {401, 500}}

\* Python truthiness of a token: None and "" are falsy.
TokenTruthy(tok) == tok \notin {NoToken, ""}

\* "if new_refresh_token: self._refresh_token = new_refresh_token"
TokenAfter(old, new_refresh_token) ==
    IF TokenTruthy(new_refresh_token) THEN new_refresh_token ELSE old

\* int(e.response_body.get("detail", "").split()[-2]); exc names the
\* exception raised when there is no such integer
ParseWaitTime(body) ==
    LET tokens == IF body.has_detail THEN body.detail ELSE <<>>
    IN  IF Len(tokens) < 2
        THEN [ok |-> FALSE, wait_time |-> 0, exc |-> "IndexError"]
        ELSE IF ~tokens[Len(tokens) - 1].num
        THEN [ok |-> FALSE, wait_time |-> 0, exc |-> "ValueError"]
        ELSE [ok |-> TRUE, wait_time |-> tokens[Len(tokens) - 1].v, exc |-> ""]

\* ResetTime forgetting the wait
ResetTime_now(t, wait_time) == UtcTime(t)

\* reset_time = datetime.now(timezone.utc) + timedelta(seconds=wait_time)
ResetTime(t, wait_time) == UtcTime(t + wait_time)

\* self.update_interval = timedelta(seconds=wait_time)
RateLimitUpdateInterval(wait_time) == wait_time

\* async_call_later(self.hass, wait_time, ...): when the wake-up fires
WakeUpTime(t, wait_time) == t + wait_time

(***************************************************************************)
(* BankAccount objects                                                     *)
(***************************************************************************)
\* What the model keeps of a BankAccount object: the cycle in which its
\* account and balance data were last fetched (0: never, the manager is
\* built with fetch_data=False) and the _last_updated attribute.
Account(fetched_in, last_updated) ==
    [fetched_in |-> fetched_in, last_updated |-> last_updated]

\* BankAccountManager(..., fetch_data=False).accounts
NewAccounts(accounts) == [i \in DOMAIN accounts |-> Account(0, NoneStr)]

\* the balance types the provider reports for an account
ProviderBalances(id) == IF id = "acc1" THEN <<"closingBooked">> ELSE <<>>

\* account.balances
balances(id, account) ==
    IF account.fetched_in = 0 THEN <<>> ELSE ProviderBalances(id)

\* The objects in memory: live is the list wrapper.accounts refers to;
\* shared tells that coordinator.data is that very list; frozen is the list
\* coordinator.data refers to otherwise (the list of an earlier manager).
Heap(live, shared, frozen) ==
    [live |-> live, shared |-> shared, frozen |-> frozen]

NoHeap == Heap(<<>>, FALSE, <<>>)

\* "for account in accounts: account._last_updated = last_updated"
Stamped(accounts, last_updated) ==
    [i \in DOMAIN accounts |-> [accounts[i] EXCEPT !.last_updated = last_updated]]

(***************************************************************************)
(* What the 428 branch sends                                               *)
(***************************************************************************)
EntryId == "entry1"

ExpiredMessage ==
    "Your Nordigen requisition ID has expired. Please update it in the integration settings."

\* async_create(self.hass, message, title=..., notification_id=...)
Notification(message) ==
    [message |-> message, title |-> "Nordigen Integration",
     notification_id |-> "nordigen_requisition_expired"]

\* RequisitionExpiredEvent without the owning entry
RequisitionExpiredEvent_anonymous(entry_id, message) ==
    [event_type |-> "nordigen_requisition_expired",
     event_data |-> [message |-> message]]

\* self.hass.bus.async_fire("nordigen_requisition_expired", {...})
RequisitionExpiredEvent(entry_id, message) ==
    [event_type |-> "nordigen_requisition_expired",
     event_data |-> [entry_id |-> entry_id, message |-> message]]

Outbox(notifications, events) ==
    [notifications |-> notifications, events |-> events]

NoOutput == Outbox(<<>>, <<>>)

(***************************************************************************)
(* State                                                                   *)
(***************************************************************************)
VARIABLES
    now,                      \* the clock, in seconds
    ticks,                    \* how often the clock has advanced
    cycles,                   \* how many cycles have been started
    entry,                    \* the persisted config entry data
    phase,                    \* "down", "constructed" or "running"
    update_interval,          \* coordinator.update_interval, in seconds
    needs_immediate_refresh,  \* coordinator._needs_immediate_refresh
    last_update_time,         \* coordinator.last_update_time
    rate_limit_reset,         \* coordinator.rate_limit_reset
    data,                     \* coordinator.data, the held snapshot
    wrapper,                  \* coordinator.wrapper
    pc,                       \* where the cycle in flight is suspended
    wakeups,                  \* the pending async_call_later timers
    refresh_requested,        \* async_request_refresh() called, not served
    resp,                     \* the adapter's last answer to the cycle
    result,                   \* how the last cycle ended
    dataBefore,               \* the snapshot held when the cycle started
    prevDecision,             \* the poll decision held at the last shutdown
    trigger,                  \* what started the last cycle
    calls,                    \* the adapter calls the last cycle has made
    heap,                     \* the BankAccount objects
    outbox,                   \* what the last cycle has sent to the user
    sensors,                  \* the sensor platform: set up or not, its entities
    call_log                  \* the adapter calls of the fetch followed call by call

clockVars == <<now, ticks, cycles>>

coordVars ==
    <<update_interval, needs_immediate_refresh, last_update_time,
      rate_limit_reset, data>>

cycleVars == <<pc, resp, result, dataBefore, trigger, calls, outbox>>

timerVars == <<wakeups, refresh_requested>>

vars ==
    <<now, ticks, cycles, entry, phase, update_interval, needs_immediate_refresh,
      last_update_time, rate_limit_reset, data, wrapper, pc, wakeups,
      refresh_requested, resp, result, dataBefore, prevDecision, trigger,
      calls, heap, outbox, sensors, call_log>>

\* coordinator.data: None, or the list of accounts
NoData == [held |-> FALSE, accounts |-> <<>>]

Snapshot(accounts) == [held |-> TRUE, accounts |-> accounts]

NoWrapper ==
    [made |-> FALSE, refresh_token |-> NoToken, accounts |-> <<>>]

\* How a cycle ended: kind is "snapshot" or "no_data" (a return),
\* "UpdateFailed", or "raised" (another exception, named by exc, left
\* _async_update_data); zero tells that its fetch returned no account.
Result(kind, exc, message, zero) ==
    [kind |-> kind, exc |-> exc, message |-> message, zero |-> zero]

NoResult == Result("none", "", "", FALSE)

NoDecision == [valid |-> FALSE, interval |-> 0, needs |-> FALSE, at |-> 0]

Calls(fetch, refresh) == [fetch |-> fetch, refresh |-> refresh]

NoCalls == Calls(0, 0)

\* The sensor platform of the entry: whether its async_setup_entry has run,
\* and the balance sensors it has added.
Sensors(setup, entities) == [setup |-> setup, entities |-> entities]

NoSensors == Sensors(FALSE, {})

\* The accounts a reader of coordinator.data finds, as the objects are now;
\* the ids are in data.accounts, in the same order.
CurrentSnapshot ==
    IF ~data.held THEN <<>>
    ELSE IF heap.shared THEN heap.live
    ELSE heap.frozen

(***************************************************************************)
(* Setup: construction and initialization                                  *)
(***************************************************************************)
\* OpenBankingDataUpdateCoordinator.__init__
Construct ==
    /\ phase = "down"
    /\ phase' = "constructed"
    /\ update_interval' = InitialInterval(entry, now)
    /\ needs_immediate_refresh' = NeedsImmediateRefresh(entry, now)
    /\ last_update_time' = ParsedOrNone(entry.last_update_time)
    /\ rate_limit_reset' = ParsedOrNone(entry.rate_limit_reset)
    /\ data' = NoData
    /\ wrapper' = NoWrapper
    /\ heap' = NoHeap
    /\ UNCHANGED <<clockVars, entry, cycleVars, timerVars, prevDecision>>
    /\ UNCHANGED <<sensors, call_log>>

\* _async_update_data is entered and awaits update_all_accounts
BeginCycle(why) ==
    /\ cycles < MaxCycles
    /\ cycles' = cycles + 1
    /\ pc' = "fetch1"
    /\ trigger' = why
    /\ calls' = Calls(1, 0)
    /\ outbox' = NoOutput
    /\ dataBefore' = data
    /\ refresh_requested' = FALSE
    /\ resp' = NoResp
    /\ UNCHANGED <<now, ticks, result, wakeups, sensors, call_log>>

\* FirstRefresh whatever the coordinator decided
FirstRefresh_always ==
    BeginCycle("first_refresh")

\* async_setup_entry once async_initialize has returned: when the
\* coordinator needs an immediate refresh,
\* async_config_entry_first_refresh() starts the first cycle.
FirstRefresh ==
    IF needs_immediate_refresh
    THEN BeginCycle("first_refresh")
    ELSE UNCHANGED <<clockVars, cycleVars, timerVars, sensors, call_log>>

\* async_initialize: the wrapper is built from the stored credentials; the
\* provider may hand out a new refresh token, which is then stored.  Setup
\* goes on to the first refresh without waiting.
AsyncInitialize(new_refresh_token, accounts) ==
    /\ phase = "constructed"
    /\ phase' = "running"
    /\ LET tok == TokenAfter(entry.refresh_token, new_refresh_token)
       IN  /\ wrapper' =
                  [made |-> TRUE, refresh_token |-> tok, accounts |-> accounts]
           /\ entry' =
                  IF TokenTruthy(tok) /\ tok # entry.refresh_token
                  THEN MergedData(entry, "refresh_token", tok)
                  ELSE entry
    /\ heap' = Heap(NewAccounts(accounts), FALSE, <<>>)
    /\ prevDecision' = NoDecision
    /\ FirstRefresh
    /\ UNCHANGED coordVars

\* async_initialize when NordigenWrapper(...) raises: setup fails and the
\* coordinator is dropped.
AsyncInitializeFails ==
    /\ phase = "constructed"
    /\ phase' = "down"
    /\ update_interval' = 0
    /\ needs_immediate_refresh' = FALSE
    /\ last_update_time' = NoDatetime
    /\ rate_limit_reset' = NoDatetime
    /\ prevDecision' = NoDecision
    /\ UNCHANGED <<clockVars, entry, data, wrapper, heap, cycleVars, timerVars>>
    /\ UNCHANGED <<sensors, call_log>>

\* NordigenWrapper.requisition_id setter: the manager is built again for
\* the new requisition (which the model does not track), with new objects
\* for the accounts now linked to it; the provider hands out no new token
\* here.  It runs between the adapter's calls, not during one.
SetRequisitionId(accounts) ==
    /\ wrapper.made
    /\ pc \notin {"fetch1", "fetch2"}
    /\ wrapper' = [wrapper EXCEPT !.accounts = accounts]
    /\ wrapper' # wrapper
    /\ heap' =
           Heap(NewAccounts(accounts), FALSE,
                IF heap.shared THEN heap.live ELSE heap.frozen)
    /\ UNCHANGED <<clockVars, entry, phase, coordVars, cycleVars, timerVars,
                   prevDecision>>
    /\ UNCHANGED <<sensors, call_log>>

\* OpenBankingOptionsFlow.async_step_init with user input
OptionsFlow(requisition_id, refresh_token) ==
    /\ entry' =
           [entry EXCEPT
               !.requisition_id = requisition_id,
               !.refresh_token = refresh_token]
    /\ entry' # entry
    /\ UNCHANGED <<clockVars, phase, coordVars, wrapper, heap, cycleVars,
                   timerVars, prevDecision>>
    /\ UNCHANGED <<sensors, call_log>>

\* OpenBankingBalanceSensor(coordinator, entry_id, account, balance_type)
BalanceSensor(account_id, balance_type) ==
    [account_id |-> account_id, balance_type |-> balance_type]

\* "for account in coordinator.data: for bal in account.balances": one
\* sensor for every balance of every account of the snapshot
SensorsOf(ids, accounts) ==
    UNION {{BalanceSensor(ids[i], balances(ids[i], accounts[i])[b]) :
                b \in DOMAIN balances(ids[i], accounts[i])} :
           i \in DOMAIN accounts}

\* "if account._account_id not in known_accounts:
\*      known_accounts.append(account._account_id)", account after account
RECURSIVE KnownAccounts(_, _)
KnownAccounts(known_accounts, ids) ==
    IF ids = <<>> THEN known_accounts
    ELSE KnownAccounts(
             IF \E k \in DOMAIN known_accounts : known_accounts[k] = Head(ids)
             THEN known_accounts
             ELSE Append(known_accounts, Head(ids)),
             Tail(ids))

\* the known_accounts write with the other keys dropped
StoreKnownAccounts_alone(e, ids) ==
    [k \in DOMAIN e |->
        IF k = "known_accounts" THEN KnownAccounts(e.known_accounts, ids)
        ELSE Absent(k)]

\* async_update_entry(entry, data={**entry.data, "known_accounts": ...})
StoreKnownAccounts(e, ids) ==
    MergedData(e, "known_accounts", KnownAccounts(e.known_accounts, ids))

\* sensor.async_setup_entry, which async_setup_entry of the integration
\* forwards to once the first refresh has been awaited or skipped: with a
\* non-empty coordinator.data it stores the account ids and adds a sensor
\* per balance, otherwise it adds nothing.
SensorSetup ==
    /\ phase = "running"
    /\ pc = "idle"
    /\ ~sensors.setup
    /\ IF data.held /\ data.accounts # <<>>
       THEN /\ entry' = StoreKnownAccounts(entry, data.accounts)
            /\ sensors' = Sensors(TRUE, SensorsOf(data.accounts, CurrentSnapshot))
       ELSE /\ entry' = entry
            /\ sensors' = Sensors(TRUE, {})
    /\ UNCHANGED <<clockVars, phase, coordVars, wrapper, heap, cycleVars,
                   timerVars, prevDecision, call_log>>

(***************************************************************************)
(* The update cycle: _async_update_data, one action per suspension point   *)
(***************************************************************************)
\* the cycle ends: it returns or raises
EndCycle(r) ==
    /\ pc' = "idle"
    /\ result' = r

\* the poll timer or a refresh request starts a cycle; neither exists
\* before async_setup_entry has forwarded the entry to the sensor platform
StartCycle ==
    /\ phase = "running"
    /\ pc = "idle"
    /\ sensors.setup
    /\ BeginCycle("poll")
    /\ UNCHANGED <<entry, phase, coordVars, wrapper, heap, prevDecision>>

\* update_all_accounts refreshes the account objects one after the other,
\* in place: when it returns it has done all of them, when it fails it has
\* done those before the one it failed on.
Answers(o, done) ==
    IF o.kind = "ok"
    THEN done = Len(wrapper.accounts)
    ELSE done < Len(wrapper.accounts)

\* acc.update_account_data(); acc.update_balance_data() on the first done
\* accounts of the list
Refreshed(accounts, done, cycle) ==
    [i \in DOMAIN accounts |->
        IF i <= done THEN [accounts[i] EXCEPT !.fetched_in = cycle]
        ELSE accounts[i]]

\* lines 133-150: stamp the accounts, hold them, store the update time
CommitFirstFetch ==
    /\ data' = Snapshot(wrapper.accounts)
    /\ heap' =
           Heap(Stamped(Refreshed(heap.live, Len(heap.live), cycles),
                        isoformat(UtcTime(now))),
                TRUE, heap.frozen)
    /\ last_update_time' = UtcTime(now)
    /\ entry' = MergedData(entry, "last_update_time", isoformat(UtcTime(now)))
    /\ EndCycle(Result("snapshot", "", "", FALSE))
    /\ UNCHANGED <<update_interval, rate_limit_reset, wakeups>>

\* "except Exception": whatever was raised inside the try block, the
\* UpdateFailed of the empty check included
GenericFailure(zero) ==
    /\ EndCycle(Result("UpdateFailed", "", "Error updating from Nordigen", zero))
    /\ UNCHANGED <<entry, update_interval, last_update_time, rate_limit_reset,
                   data, wakeups>>

\* lines 179-210: the 429 branch with a wait time that parsed
RateLimited(wait_time) ==
    /\ entry' =
           MergedData(entry, "rate_limit_reset",
                      isoformat(ResetTime(now, wait_time)))
    /\ rate_limit_reset' = ResetTime(now, wait_time)
    /\ update_interval' = RateLimitUpdateInterval(wait_time)
    /\ wakeups' = Append(wakeups, WakeUpTime(now, wait_time))
    /\ EndCycle(Result("no_data", "", "", FALSE))
    /\ UNCHANGED <<last_update_time, data>>

\* an exception raised inside the "except NordigenAPIError" handler: no
\* clause of the same try statement catches it
Escapes(exc) ==
    /\ EndCycle(Result("raised", exc, "", FALSE))
    /\ UNCHANGED <<entry, update_interval, last_update_time, rate_limit_reset,
                   data, wakeups>>

\* ApiFailure storing the time of the failed cycle as the last update
ApiFailure_stamping(message) ==
    /\ EndCycle(Result("UpdateFailed", "", message, FALSE))
    /\ entry' = MergedData(entry, "last_update_time", isoformat(UtcTime(now)))
    /\ UNCHANGED <<update_interval, last_update_time, rate_limit_reset,
                   data, wakeups>>

\* lines 212-240: 428, 410 and every other status
ApiFailure(message) ==
    /\ EndCycle(Result("UpdateFailed", "", message, FALSE))
    /\ UNCHANGED <<entry, update_interval, last_update_time, rate_limit_reset,
                   data, wakeups>>

\* lines 213-234: what the branch of status 428 sends before line 240
RequisitionExpiredOutput ==
    Outbox(<<Notification(ExpiredMessage)>>,
           <<RequisitionExpiredEvent(EntryId, ExpiredMessage)>>)

\* the objects after an update_all_accounts that failed past done accounts
FailedFetch(done) ==
    Heap(Refreshed(heap.live, done, cycles), heap.shared, heap.frozen)

\* the first update_all_accounts has completed with answer o
FirstFetchDone(o, done) ==
    /\ pc = "fetch1"
    /\ Answers(o, done)
    /\ o.status = 429 => Len(wakeups) < MaxWakeups
    /\ resp' = o
    /\ IF o.kind = "ok"
       THEN /\ IF wrapper.accounts = <<>>
               THEN GenericFailure(TRUE) /\ UNCHANGED heap
               ELSE CommitFirstFetch
            /\ UNCHANGED <<calls, outbox>>
       ELSE /\ heap' = FailedFetch(done)
            /\ IF o.kind = "exception"
               THEN GenericFailure(FALSE) /\ UNCHANGED <<calls, outbox>>
               ELSE IF o.status = 401
               THEN /\ pc' = "refresh"
                    /\ calls' = [calls EXCEPT !.refresh = @ + 1]
                    /\ UNCHANGED <<entry, update_interval, last_update_time,
                                   rate_limit_reset, data, wakeups, result,
                                   outbox>>
               ELSE IF o.status = 429
               THEN /\ LET w == ParseWaitTime(o.body)
                       IN  IF w.ok THEN RateLimited(w.wait_time)
                           ELSE Escapes(w.exc)
                    /\ UNCHANGED <<calls, outbox>>
               ELSE /\ ApiFailure("Nordigen API update failed")
                    /\ outbox' =
                           IF o.status = 428 THEN RequisitionExpiredOutput
                           ELSE outbox
                    /\ UNCHANGED calls
    /\ UNCHANGED <<clockVars, phase, needs_immediate_refresh, wrapper,
                   refresh_requested, dataBefore, trigger, prevDecision>>
    /\ UNCHANGED <<sensors, call_log>>

\* lines 160-170: refresh_access_token has completed with answer o; when it
\* succeeded the token is stored and the fetch is tried again
RefreshDone(o) ==
    /\ pc = "refresh"
    /\ resp' = o
    /\ IF o.kind = "ok"
       THEN LET tok == TokenAfter(wrapper.refresh_token, o.new_token)
            IN  /\ wrapper' = [wrapper EXCEPT !.refresh_token = tok]
                /\ entry' = MergedData(entry, "refresh_token", tok)
                /\ pc' = "fetch2"
                /\ calls' = [calls EXCEPT !.fetch = @ + 1]
                /\ UNCHANGED <<update_interval, last_update_time,
                               rate_limit_reset, data, wakeups, result>>
       ELSE /\ IF o.kind = "api_error"
               THEN ApiFailure("Nordigen API authentication failed")
               ELSE Escapes("RuntimeError")
            /\ UNCHANGED <<wrapper, calls>>
    /\ UNCHANGED heap
    /\ UNCHANGED <<clockVars, phase, needs_immediate_refresh,
                   refresh_requested, dataBefore, trigger, outbox,
                   prevDecision>>
    /\ UNCHANGED <<sensors, call_log>>

\* lines 169-173: hold and return whatever the retried fetch left
CommitRetry ==
    /\ data' = Snapshot(wrapper.accounts)
    /\ heap' =
           Heap(Refreshed(heap.live, Len(heap.live), cycles), TRUE, heap.frozen)
    /\ EndCycle(Result("snapshot", "", "", wrapper.accounts = <<>>))
    /\ UNCHANGED <<entry, update_interval, last_update_time, rate_limit_reset,
                   wakeups>>

\* the retried update_all_accounts has completed with answer o
RetryDone(o, done) ==
    /\ pc = "fetch2"
    /\ Answers(o, done)
    /\ resp' = o
    /\ IF o.kind = "ok" THEN CommitRetry
       ELSE /\ heap' = FailedFetch(done)
            /\ IF o.kind = "api_error"
               THEN ApiFailure("Nordigen API authentication failed")
               ELSE Escapes("RuntimeError")
    /\ UNCHANGED <<clockVars, phase, needs_immediate_refresh, wrapper,
                   refresh_requested, dataBefore, trigger, calls, outbox,
                   prevDecision>>
    /\ UNCHANGED <<sensors, call_log>>

(***************************************************************************)
(* Timers, the clock, shutdown                                             *)
(***************************************************************************)
RemoveAt(seq, i) == SubSeq(seq, 1, i - 1) \o SubSeq(seq, i + 1, Len(seq))

\* a one-shot wake-up is due: "lambda _: self.async_request_refresh()"
WakeUp(i) ==
    /\ phase = "running"
    /\ i \in DOMAIN wakeups
    /\ wakeups[i] <= now
    /\ wakeups' = RemoveAt(wakeups, i)
    /\ refresh_requested' = TRUE
    /\ UNCHANGED <<clockVars, entry, phase, coordVars, wrapper, heap,
                   cycleVars, prevDecision>>
    /\ UNCHANGED <<sensors, call_log>>

TickSteps == {NominalInterval}

\* datetime.now(timezone.utc) moves on
Tick(d) ==
    /\ ticks < MaxTicks
    /\ now' = now + d
    /\ ticks' = ticks + 1
    /\ UNCHANGED cycles
    /\ prevDecision' = NoDecision
    /\ UNCHANGED <<entry, phase, coordVars, wrapper, heap, cycleVars,
                   timerVars>>
    /\ UNCHANGED <<sensors, call_log>>

\* The process stops: everything held in memory is gone, pending wake-ups
\* included; the config entry stays.
Shutdown ==
    /\ phase = "running"
    /\ phase' = "down"
    /\ prevDecision' =
           [valid |-> TRUE, interval |-> update_interval,
            needs |-> needs_immediate_refresh, at |-> now]
    /\ update_interval' = 0
    /\ needs_immediate_refresh' = FALSE
    /\ last_update_time' = NoDatetime
    /\ rate_limit_reset' = NoDatetime
    /\ data' = NoData
    /\ wrapper' = NoWrapper
    /\ heap' = NoHeap
    /\ pc' = "idle"
    /\ wakeups' = <<>>
    /\ refresh_requested' = FALSE
    /\ resp' = NoResp
    /\ result' = NoResult
    /\ dataBefore' = NoData
    /\ trigger' = "none"
    /\ calls' = NoCalls
    /\ outbox' = NoOutput
    /\ sensors' = NoSensors
    /\ UNCHANGED <<clockVars, entry, call_log>>

(***************************************************************************)
(* Specification: a fresh installation and everything that follows         *)
(***************************************************************************)
Down ==
    /\ phase = "down"
    /\ update_interval = 0
    /\ needs_immediate_refresh = FALSE
    /\ last_update_time = NoDatetime
    /\ rate_limit_reset = NoDatetime
    /\ data = NoData
    /\ wrapper = NoWrapper
    /\ heap = NoHeap
    /\ pc = "idle"
    /\ wakeups = <<>>
    /\ refresh_requested = FALSE
    /\ resp = NoResp
    /\ result = NoResult
    /\ dataBefore = NoData
    /\ trigger = "none"
    /\ calls = NoCalls
    /\ outbox = NoOutput
    /\ sensors = NoSensors
    /\ call_log = <<>>
    /\ prevDecision = NoDecision

Init ==
    /\ now = 0
    /\ ticks = 0
    /\ cycles = 0
    /\ entry = NewEntry("req1", NoToken)
    /\ Down

Next ==
    \/ Construct
    \/ \E tok \in {NoToken} \cup Tokens, a \in AccountLists :
           AsyncInitialize(tok, a)
    \/ AsyncInitializeFails
    \/ \E a \in AccountLists : SetRequisitionId(a)
    \/ \E r \in Requisitions, tok \in UserTokens : OptionsFlow(r, tok)
    \/ SensorSetup
    \/ StartCycle
    \/ \E o \in update_all_accounts(wrapper.accounts),
          done \in 0..Len(wrapper.accounts) : FirstFetchDone(o, done)
    \/ \E o \in refresh_access_token : RefreshDone(o)
    \/ \E o \in update_all_accounts(wrapper.accounts),
          done \in 0..Len(wrapper.accounts) : RetryDone(o, done)
    \/ \E i \in 1..MaxWakeups : WakeUp(i)
    \/ \E d \in TickSteps : Tick(d)
    \/ Shutdown

Spec == Init /\ [][Next]_vars

(***************************************************************************)
(* Specification of the construction alone: the coordinator is built from  *)
(* every persisted RecoveryState of a bounded set, at one instant.         *)
(***************************************************************************)
CtorNow == 5 * NominalInterval

Skews == (0 - MaxSkew)..MaxSkew

\* now - lastUpdateTime: around 0, the past-due delay, the nominal interval
ElapsedTimes ==
    {l + k : l \in {0, PastDueDelay, NominalInterval - PastDueDelay,
                    NominalInterval, 2 * NominalInterval},
             k \in Skews}

\* rateLimitResetTime - now: around 0, a provider wait, the nominal interval
ResetDistances == {l + k : l \in {0, 120, NominalInterval}, k \in Skews}

LastUpdateStrs ==
    {NoneStr, EmptyStr, BadStr, Str("naive", CtorNow - 2 * NominalInterval)}
        \cup {Str("iso", CtorNow - e) : e \in ElapsedTimes}

RateLimitResetStrs ==
    {NoneStr, EmptyStr, BadStr, Str("naive", CtorNow + 120)}
        \cup {Str("iso", CtorNow + r) : r \in ResetDistances}

CtorInit ==
    /\ now = CtorNow
    /\ ticks = 0
    /\ cycles = 0
    /\ \E l \in LastUpdateStrs, r \in RateLimitResetStrs :
           entry = [NewEntry("req1", NoToken) EXCEPT
                       !.last_update_time = l, !.rate_limit_reset = r]
    /\ Down

CtorNext == Construct

CtorSpec == CtorInit /\ [][CtorNext]_vars

(***************************************************************************)
(* Vocabulary of the properties                                            *)
(***************************************************************************)
\* the stored timestamp is a UTC timestamp (recorded and readable)
Recorded(s) == s.kind = "iso"

\* a rate limit reset is recorded and lies in the future
FutureReset == Recorded(entry.rate_limit_reset) /\ entry.rate_limit_reset.t > now

\* now - lastUpdateTime, for a recorded lastUpdateTime
Elapsed == now - entry.last_update_time.t

\* the detail message's second-to-last token is the integer W
SecondToLastIs(body, W) ==
    /\ body.has_detail
    /\ Len(body.detail) >= 2
    /\ body.detail[Len(body.detail) - 1] = IntTok(W)

\* this step is the first fetch of a cycle failing with a 429 that names W
RateLimitedStep(W) ==
    /\ pc = "fetch1"
    /\ pc' # "fetch1"
    /\ resp'.call = "fetch"
    /\ resp'.kind = "api_error"
    /\ resp'.status = 429
    /\ SecondToLastIs(resp'.body, W)

\* the snapshot is a committed list with at least one account
NonEmpty(snapshot) == snapshot.held /\ snapshot.accounts # <<>>

(***************************************************************************)
(* Properties of the construction (checked under CtorSpec)                 *)
(***************************************************************************)
\* C6: whenever the coordinator has been built from a RecoveryState whose
\* rateLimitResetTime lies in the future, its poll interval is exactly
\* resetTime - now, whatever lastUpdateTime holds (nothing, a fresh, a
\* stale or an unreadable value).
C6_FutureResetSetsInterval ==
    phase = "constructed" /\ FutureReset
        => update_interval = entry.rate_limit_reset.t - now

\* C6 witness: built with a future reset and a stale lastUpdateTime, and
\* the interval is the time to the reset, not the past-due delay.
C6_Witness ==
    /\ phase = "constructed"
    /\ FutureReset
    /\ Recorded(entry.last_update_time)
    /\ Elapsed > NominalInterval
    /\ update_interval = entry.rate_limit_reset.t - now
    /\ update_interval # PastDueDelay

\* C7 as claimed: built with no rate limit and a lastUpdateTime exactly
\* nominalInterval in the past, the coordinator needs an immediate refresh.
C7_ExactlyNominalNeedsRefresh ==
    /\ phase = "constructed"
    /\ ~Truthy(entry.rate_limit_reset)
    /\ Recorded(entry.last_update_time)
    /\ Elapsed = NominalInterval
    => needs_immediate_refresh

\* C7 as amended: built with no rate limit, the coordinator needs an
\* immediate refresh when lastUpdateTime is more than nominalInterval in
\* the past, and does not when it is exactly nominalInterval in the past.
C7_PastNominalNeedsRefresh ==
    /\ phase = "constructed"
    /\ ~Truthy(entry.rate_limit_reset)
    /\ Recorded(entry.last_update_time)
    => /\ Elapsed > NominalInterval => needs_immediate_refresh
       /\ Elapsed = NominalInterval => ~needs_immediate_refresh

\* C7 witness: built one second past the nominal interval, flag set.
C7_Witness ==
    /\ phase = "constructed"
    /\ ~Truthy(entry.rate_limit_reset)
    /\ Recorded(entry.last_update_time)
    /\ Elapsed = NominalInterval + 1
    /\ needs_immediate_refresh

\* C8: once built, the coordinator needs an immediate refresh if and only
\* if no lastUpdateTime is recorded or now - lastUpdateTime exceeds the
\* nominal interval; neither rateLimitResetTime nor the poll interval
\* enters into it.
C8_NeedsRefreshIff ==
    phase = "constructed"
        => (needs_immediate_refresh
              <=> \/ ~Truthy(entry.last_update_time)
                  \/ /\ Recorded(entry.last_update_time)
                     /\ Elapsed > NominalInterval)

\* C8 witness: built under a future rate limit reset, with the poll
\* interval primed to it, and the flag is set all the same.
C8_Witness ==
    /\ phase = "constructed"
    /\ FutureReset
    /\ update_interval = entry.rate_limit_reset.t - now
    /\ Recorded(entry.last_update_time)
    /\ Elapsed > NominalInterval
    /\ needs_immediate_refresh

\* C9 as claimed: built with no future rateLimitResetTime, the poll
\* interval is max(60 s, nominalInterval - (now - lastUpdateTime)) when a
\* lastUpdateTime is recorded, and the first poll is immediate when none is.
C9_IntervalHasFloor ==
    phase = "constructed" /\ ~FutureReset
        => /\ Recorded(entry.last_update_time)
                => update_interval = Max(60, NominalInterval - Elapsed)
           /\ ~Truthy(entry.last_update_time) => needs_immediate_refresh

\* C9 as amended: built with no future rateLimitResetTime, the poll
\* interval is nominalInterval - (now - lastUpdateTime) while that is
\* positive (below 60 s too), 60 s once it is not, and the nominal interval
\* when lastUpdateTime is absent or unreadable; with none recorded the flag
\* is set, which is what makes the first poll immediate.
C9_RemainingOrPastDue ==
    phase = "constructed" /\ ~FutureReset
        => /\ Recorded(entry.last_update_time) /\ Elapsed < NominalInterval
                => update_interval = NominalInterval - Elapsed
           /\ Recorded(entry.last_update_time) /\ Elapsed >= NominalInterval
                => update_interval = 60
           /\ ~Recorded(entry.last_update_time)
                => update_interval = NominalInterval
           /\ ~Truthy(entry.last_update_time) => needs_immediate_refresh

\* C9 witness: built one second before the nominal interval has passed:
\* the interval is one second and no immediate refresh is needed.
C9_Witness ==
    /\ phase = "constructed"
    /\ ~FutureReset
    /\ Recorded(entry.last_update_time)
    /\ Elapsed = NominalInterval - 1
    /\ update_interval = 1
    /\ ~needs_immediate_refresh

C4_RefreshTokenKept ==
    [][/\ pc = "refresh" /\ pc' = "fetch2"
              => /\ entry'.refresh_token = wrapper'.refresh_token
                 /\ TokenTruthy(resp'.new_token)
                        => entry'.refresh_token = resp'.new_token
       /\ pc = "fetch2" /\ resp'.call = "fetch" /\ resp'.kind = "ok"
              => /\ result'.kind = "snapshot"
                 /\ data' = Snapshot(wrapper.accounts)
       /\ phase = "running" /\ pc' # pc /\ ~(pc = "refresh" /\ pc' = "fetch2")
              => entry'.refresh_token = entry.refresh_token
      ]_vars

\* C4 witness: a snapshot committed by a retried fetch is held (no first
\* fetch has succeeded since the coordinator was built), a later cycle has
\* failed on its first fetch with a status other than 401, and the stored
\* token is still the adapter's.
C4_Witness ==
    /\ pc = "idle"
    /\ data.held
    /\ last_update_time = NoDatetime
    /\ resp.call = "fetch"
    /\ resp.kind = "api_error"
    /\ resp.status \in {429, 428, 410, 500}
    /\ result.kind \in {"no_data", "UpdateFailed"}
    /\ entry.refresh_token \in Tokens
    /\ entry.refresh_token = wrapper.refresh_token

\* C5: a coordinator rebuilt from the persisted RecoveryState with the
\* clock unchanged holds the poll decision (poll interval and
\* needs-immediate-refresh) the running coordinator held at the shutdown.
C5_RestartRoundTrip ==
    phase = "constructed" /\ prevDecision.valid /\ prevDecision.at = now
        => /\ update_interval = prevDecision.interval
           /\ needs_immediate_refresh = prevDecision.needs

\* C10: every cycle ends by returning a snapshot, by returning no data or
\* by raising UpdateFailed; no other exception leaves the cycle.
C10_OnlyThreeOutcomes ==
    result.kind \in {"none", "snapshot", "no_data", "UpdateFailed"}

(***************************************************************************)
(* The presentation layer: what the balance sensors read                   *)
(***************************************************************************)
\* coordinator.last_update_success, as the sensor reads it: the last cycle
\* returned (a snapshot or no data) rather than raised
last_update_success == result.kind \notin {"UpdateFailed", "raised"}

\* OpenBankingBalanceSensor._account: the positions of the sensor's account
\* in coordinator.data (none when there is no data or no such account)
account_at(account_id) ==
    {i \in DOMAIN CurrentSnapshot : data.accounts[i] = account_id}

\* available without the test of last_update_success
available_whatever_the_cycle(account_id) ==
    \E i \in account_at(account_id) :
        \E b \in DOMAIN balances(account_id, CurrentSnapshot[i]) :
            balances(account_id, CurrentSnapshot[i])[b] # ""

\* OpenBankingBalanceSensor.available
available(account_id) ==
    /\ last_update_success
    /\ \E i \in account_at(account_id) :
           \E b \in DOMAIN balances(account_id, CurrentSnapshot[i]) :
               balances(account_id, CurrentSnapshot[i])[b] # ""

AccountIds == {"acc1", "acc2"}

\* the last answer of the adapter was a failure of a fetch with this status
FetchFailedWith(status) ==
    /\ resp.call = "fetch"
    /\ resp.kind = "api_error"
    /\ resp.status = status

\* a cycle has ended and no other has started since
CycleOver == phase = "running" /\ pc = "idle" /\ result.kind # "none"

(***************************************************************************)
(* Properties of the failure handling (checked under Spec)                 *)
(***************************************************************************)
\* C12: every cycle whose fetch (the first one or the retried one) fails
\* with status 428 has sent, when it ends, one persistent notification and
\* one domain event carrying the owning entry's identifier and a message,
\* and ends by raising UpdateFailed; a cycle that ends on any other status
\* has sent neither.
C12_ExpiredRequisitionReported ==
    CycleOver /\ resp.call = "fetch" /\ resp.kind = "api_error"
        => IF resp.status = 428
           THEN /\ Len(outbox.notifications) = 1
                /\ Len(outbox.events) = 1
                /\ outbox.events[1].event_data.entry_id = EntryId
                /\ outbox.events[1].event_data.message # ""
                /\ result.kind = "UpdateFailed"
           ELSE outbox = NoOutput

\* C13: a cycle refreshes the token at most once and fetches at most twice,
\* the second time only after a refresh; a cycle whose token refresh or
\* retried fetch has failed ends by raising UpdateFailed for an
\* authentication failure, the coordinator keeps running, and the next
\* cycle starts from a first fetch.
C13_OneRefreshOneRetry ==
    /\ calls.refresh <= 1
    /\ calls.fetch <= 2
    /\ calls.fetch = 2 => calls.refresh = 1
    /\ pc = "fetch1" => calls = Calls(1, 0)
    /\ CycleOver /\ calls.refresh = 1 /\ resp.kind # "ok"
           => /\ result.kind = "UpdateFailed"
              /\ result.message = "Nordigen API authentication failed"

\* C14: every step that ends a cycle by returning a snapshot (after the
\* first fetch or after the fetch retried on a 401) leaves every account of
\* the held snapshot stamped with the time of that cycle and the persisted
\* lastUpdateTime equal to that time.
C14_SuccessStampsAndPersists ==
    [][pc # "idle" /\ pc' = "idle" /\ result'.kind = "snapshot"
          => /\ entry'.last_update_time = isoformat(UtcTime(now))
             /\ last_update_time' = UtcTime(now)
             /\ \A i \in DOMAIN CurrentSnapshot' :
                    CurrentSnapshot'[i].last_updated = isoformat(UtcTime(now))
      ]_vars

\* C15: once a cycle has succeeded, no rate limit reset time is recorded,
\* neither in the persisted entry nor in the coordinator's memory.
C15_SuccessClearsRateLimit ==
    CycleOver /\ result.kind = "snapshot"
        => /\ ~Truthy(entry.rate_limit_reset)
           /\ rate_limit_reset = NoDatetime

\* C16: after a cycle that failed, no account of the snapshot the sensors
\* read carries data fetched by that cycle: the snapshot is, account by
\* account, the one held before the cycle.
C16_NoPartialSnapshot ==
    CycleOver /\ result.kind # "snapshot"
        => \A i \in DOMAIN CurrentSnapshot :
               CurrentSnapshot[i].fetched_in # cycles

\* C17: a cycle whose fetch fails with a 429 whose wait duration cannot be
\* parsed takes the wait to be 300 s: it stores rateLimitResetTime =
\* now + 300 and returns no data.
C17_UnparsableWaitDefaults ==
    [][/\ pc = "fetch1"
       /\ resp'.call = "fetch"
       /\ resp'.kind = "api_error"
       /\ resp'.status = 429
       /\ ~ParseWaitTime(resp'.body).ok
          => /\ pc' = "idle"
             /\ result'.kind = "no_data"
             /\ entry'.rate_limit_reset = isoformat(UtcTime(now + 300))
      ]_vars

\* C18: while a recorded rateLimitResetTime lies in the future, the setup
\* sequence's first refresh has no fetch of an account in flight, whatever
\* lastUpdateTime holds.
C18_RateLimitHoldsFirstRefresh ==
    /\ trigger = "first_refresh"
    /\ pc \in {"fetch1", "fetch2"}
    /\ wrapper.accounts # <<>>
    => ~FutureReset

\* C19: in every state a balance sensor is available only if the last cycle
\* succeeded and its account is in the current snapshot with at least one
\* balance; and after a cycle that ended in UpdateFailed no sensor is
\* available.
C19_AvailableOnlyAfterSuccess ==
    /\ \A id \in AccountIds :
           available(id)
               => /\ last_update_success
                  /\ \E i \in account_at(id) :
                         Len(balances(id, CurrentSnapshot[i])) >= 1
    /\ result.kind = "UpdateFailed" => \A id \in AccountIds : ~available(id)

\* C19 witness: a cycle has ended in UpdateFailed while a snapshot with the
\* account and its balance is held: the sensor is not available.
C19_Witness ==
    /\ CycleOver
    /\ result.kind = "UpdateFailed"
    /\ \E i \in account_at("acc1") :
           Len(balances("acc1", CurrentSnapshot[i])) >= 1
    /\ ~available("acc1")

\* C20 as claimed: every domain event sent on requisition expiry has the
\* event type "requisition_expired" and carries exactly the owning entry's
\* identifier and the message.
C20_EventTypeRequisitionExpired ==
    \A i \in DOMAIN outbox.events :
        /\ outbox.events[i].event_type = "requisition_expired"
        /\ outbox.events[i].event_data =
               [entry_id |-> EntryId, message |-> ExpiredMessage]

\* C20 as amended: every domain event sent on requisition expiry has the
\* event type "nordigen_requisition_expired" and carries exactly the owning
\* entry's identifier and the message.
C20_EventCarriesEntryAndMessage ==
    \A i \in DOMAIN outbox.events :
        /\ outbox.events[i].event_type = "nordigen_requisition_expired"
        /\ outbox.events[i].event_data =
               [entry_id |-> EntryId, message |-> ExpiredMessage]

\* C20 witness: a first fetch has failed with 428 and the event is out.
C20_Witness ==
    /\ CycleOver
    /\ FetchFailedWith(428)
    /\ Len(outbox.events) = 1
    /\ outbox.events[1].event_data.entry_id = EntryId

(***************************************************************************)
(* Properties of the steady state (checked under Spec)                     *)
(***************************************************************************)
\* C21: after every cycle that succeeded, the poll interval is the nominal
\* interval: an interval shortened at construction or by a 429 does not
\* outlive a successful cycle.
C21_SuccessRestoresNominalInterval ==
    CycleOver /\ result.kind = "snapshot" => update_interval = NominalInterval

\* C22: after a cycle that was rate limited and returned no data, the
\* coordinator holds what it held before the cycle, and the accounts the
\* sensors read are, one by one, untouched by that cycle.
C22_RateLimitedKeepsSnapshot ==
    CycleOver /\ result.kind = "no_data"
        => /\ data = dataBefore
           /\ \A i \in DOMAIN CurrentSnapshot :
                  CurrentSnapshot[i].fetched_in < cycles

\* the message of the UpdateFailed raised by the empty check (line 131)
NoAccountsMessage == "No accounts found. Ensure bank authorization is complete."

\* C28: every cycle whose fetch returned zero accounts ends in an
\* UpdateFailed whose message tells that no accounts were found, which is
\* not the message of the failure raised for an unexpected exception.
C28_NoAccountsFailureIsDistinct ==
    CycleOver /\ result.zero
        => /\ result.kind = "UpdateFailed"
           /\ result.message = NoAccountsMessage

\* the sensor platform is being set up in this step
SensorPlatformSetUp == ~sensors.setup /\ sensors'.setup

\* this step stores a new value of key, or nothing, and leaves every other
\* key of the entry as it was
OnlyKeyWritten(key) == entry' = [entry EXCEPT ![key] = entry'[key]]

C25_MemoryEqualsStore ==
    phase = "running" /\ pc = "idle"
        => /\ last_update_time = ParsedOrNone(entry.last_update_time)
           /\ rate_limit_reset = ParsedOrNone(entry.rate_limit_reset)
           /\ TokenTruthy(wrapper.refresh_token)
                  => wrapper.refresh_token = entry.refresh_token

\* C26: setup starts the first cycle, in the step that ends
\* async_initialize, if and only if the coordinator needs an immediate
\* refresh; when the sensor platform is set up that cycle has ended if it
\* was needed, and otherwise no cycle has run and no fetch has been made;
\* every other cycle starts after the sensor platform has been set up.
C26_FirstCycleBeforeSensorsIffNeeded ==
    [][/\ phase = "constructed" /\ phase' = "running"
              => (pc' = "fetch1" <=> needs_immediate_refresh)
       /\ SensorPlatformSetUp
              => IF needs_immediate_refresh
                 THEN /\ trigger = "first_refresh"
                      /\ pc = "idle"
                      /\ result.kind # "none"
                      /\ calls.fetch >= 1
                 ELSE /\ trigger = "none"
                      /\ result = NoResult
                      /\ calls = NoCalls
       /\ pc = "idle" /\ pc' = "fetch1" /\ trigger' = "poll"
              => sensors.setup]_vars

\* C26 witness: setup has skipped the first refresh, the sensor platform
\* has been set up, and the poll timer has started the first fetch.
C26_Witness ==
    /\ sensors.setup
    /\ ~needs_immediate_refresh
    /\ trigger = "poll"
    /\ pc = "fetch1"
    /\ result = NoResult

\* a sensor for every balance the provider reports for these accounts
SensorsForAll(ids) ==
    UNION {{BalanceSensor(ids[i], ProviderBalances(ids[i])[b]) :
                b \in DOMAIN ProviderBalances(ids[i])} :
           i \in DOMAIN ids}

\* C27: when the sensor platform is set up after a setup that skipped the
\* first refresh, the coordinator holds a populated snapshot and the
\* platform adds a balance sensor for every balance of every account.
C27_SkippedRefreshHasSensors ==
    [][SensorPlatformSetUp /\ ~needs_immediate_refresh
           /\ wrapper.accounts # <<>>
           => /\ NonEmpty(data)
              /\ sensors'.entities = SensorsForAll(wrapper.accounts)]_vars

\* C29: every step that stores the refresh token, the rate limit reset, the
\* last update time or the known account ids leaves every other key of the
\* entry (credentials and requisition id included) as it was, whatever the
\* order of the cycles and the sensor setups.
C29_WritesAreMerges ==
    [][/\ phase = "constructed" /\ phase' = "running"
              => OnlyKeyWritten("refresh_token")
       /\ pc = "refresh" /\ pc' = "fetch2"
              => OnlyKeyWritten("refresh_token")
       /\ pc = "fetch1" /\ pc' = "idle" /\ result'.kind = "no_data"
              => OnlyKeyWritten("rate_limit_reset")
       /\ pc = "fetch1" /\ pc' = "idle" /\ result'.kind = "snapshot"
              => OnlyKeyWritten("last_update_time")
       /\ SensorPlatformSetUp
              => OnlyKeyWritten("known_accounts")]_vars

\* C29 witness: the four recovery values have all been stored, one after
\* the other, and are all in the entry.
C29_Witness ==
    /\ entry.refresh_token \in Tokens
    /\ Recorded(entry.last_update_time)
    /\ Recorded(entry.rate_limit_reset)
    /\ entry.known_accounts = <<"acc1", "acc2">>
    /\ entry.secret_id = "id"
    /\ entry.requisition_id = "req1"

(***************************************************************************)
(* Specification of one fetch, call by call: update_all_accounts is        *)
(* followed through its loop, on every list of a bounded set of accounts,  *)
(* each call succeeding or failing.  (Spec takes the fetch as one step and *)
(* keeps no log of its calls.)                                             *)
(***************************************************************************)
MaxAccounts == 3

FetchAccountIds == {"acc1", "acc2", "acc3", "acc4"}

\* the lists of at most MaxAccounts accounts, none listed twice
FetchAccountLists ==
    UNION {{a \in [1..n -> FetchAccountIds] :
                \A i, j \in 1..n : a[i] = a[j] => i = j} :
           n \in 0..MaxAccounts}

\* one call of the adapter on an account object, and whether it returned
AdapterCallOf(account_id, method, ok) ==
    [account_id |-> account_id, method |-> method, ok |-> ok]

\* The call the loop issues after those of log: "for acc in self.accounts:
\* acc.update_account_data(); acc.update_balance_data()"
NextCall(accounts, log, ok) ==
    AdapterCallOf(accounts[(Len(log) \div 2) + 1],
                  IF Len(log) % 2 = 0 THEN "update_account_data"
                  ELSE "update_balance_data",
                  ok)

\* LoopEnded when a failed call does not end the loop
LoopEnded_after_the_last_account(accounts, log) ==
    Len(log) = 2 * Len(accounts)

\* the loop is over: every account is done, or a call has raised
LoopEnded(accounts, log) ==
    \/ Len(log) = 2 * Len(accounts)
    \/ log # <<>> /\ ~log[Len(log)].ok

\* how many accounts of the list have had both calls return
DoneAccounts(log) ==
    IF log # <<>> /\ ~log[Len(log)].ok THEN (Len(log) - 1) \div 2
    ELSE Len(log) \div 2

\* the next call of the running update_all_accounts returns or raises
AdapterCall(ok) ==
    /\ pc = "fetch1"
    /\ ~LoopEnded(wrapper.accounts, call_log)
    /\ call_log' = Append(call_log, NextCall(wrapper.accounts, call_log, ok))
    /\ heap' =
           Heap(Refreshed(heap.live, DoneAccounts(call_log'), cycles),
                heap.shared, heap.frozen)
    /\ UNCHANGED <<clockVars, entry, phase, coordVars, wrapper, cycleVars,
                   timerVars, prevDecision, sensors>>

\* a coordinator of a new installation whose first cycle is at its fetch
FetchInit ==
    /\ now = 0
    /\ ticks = 0
    /\ cycles = 1
    /\ entry = NewEntry("req1", NoToken)
    /\ phase = "running"
    /\ update_interval = InitialInterval(entry, now)
    /\ needs_immediate_refresh = NeedsImmediateRefresh(entry, now)
    /\ last_update_time = NoDatetime
    /\ rate_limit_reset = NoDatetime
    /\ data = NoData
    /\ \E a \in FetchAccountLists :
           /\ wrapper = [made |-> TRUE, refresh_token |-> NoToken, accounts |-> a]
           /\ heap = Heap(NewAccounts(a), FALSE, <<>>)
    /\ pc = "fetch1"
    /\ wakeups = <<>>
    /\ refresh_requested = FALSE
    /\ resp = NoResp
    /\ result = NoResult
    /\ dataBefore = NoData
    /\ prevDecision = NoDecision
    /\ trigger = "first_refresh"
    /\ calls = Calls(1, 0)
    /\ outbox = NoOutput
    /\ sensors = NoSensors
    /\ call_log = <<>>

FetchNext == \E ok \in BOOLEAN : AdapterCall(ok)

FetchSpec == FetchInit /\ [][FetchNext]_vars

\* C24: at every point of a fetch, the calls issued so far are, in order,
\* update_account_data then update_balance_data on the first listed
\* account, then on the second, and so on; every call but the last one has
\* returned, so that no call follows one that failed.
C24_CallsInOrderUntilFailure ==
    /\ Len(call_log) <= 2 * Len(wrapper.accounts)
    /\ \A i \in DOMAIN call_log :
           /\ call_log[i].account_id = wrapper.accounts[(i + 1) \div 2]
           /\ call_log[i].method =
                  IF i % 2 = 1 THEN "update_account_data"
                  ELSE "update_balance_data"
           /\ i < Len(call_log) => call_log[i].ok

\* C24 witness: the fetch of three accounts has got through the first one
\* and has failed on the account data of the second: it has made three
\* calls and leaves three unmade.
C24_Witness ==
    /\ Len(wrapper.accounts) = 3
    /\ Len(call_log) = 3
    /\ call_log[1].ok /\ call_log[2].ok /\ ~call_log[3].ok
    /\ LoopEnded(wrapper.accounts, call_log)
    /\ heap.live[1].fetched_in = cycles
    /\ heap.live[2].fetched_in = 0

====
